---- MODULE Spec2Model ----
(***************************************************************************)
(* The chess rules engine of frontend_chess_app/src/utils/chess.js and the *)
(* reducer of pages/ChessGamePage.js that drives it.                       *)
(*                                                                         *)
(* A board is board[r][c] with r = 0 rank 8 and r = 7 rank 1.  JavaScript  *)
(* null is Null for a piece, NoSquare for a square, "null" for a result;   *)
(* an absent promotion is "none" and an absent flag is FALSE (the code     *)
(* reads flags through Boolean()).  The em dash of the status texts is     *)
(* written "-".                                                            *)
(***************************************************************************)
EXTENDS Integers, Sequences, FiniteSets, TLC

VARIABLES game, last

vars == <<game, last>>

----------------------------------------------------------------------------
(* Values *)

FILES == <<"a", "b", "c", "d", "e", "f", "g", "h">>

RANKS == <<"8", "7", "6", "5", "4", "3", "2", "1">>

Null == [type |-> "none", color |-> "none"]

NoSquare == [r |-> -1, c |-> -1]

Idx == 0 .. 7

Squares == [r : Idx, c : Idx]

Sq(r, c) == [r |-> r, c |-> c]

Pc(type, color) == [type |-> type, color |-> color]

Abs(x) == IF x < 0 THEN -x ELSE x

Max(x, y) == IF x < y THEN y ELSE x

(* A move {from, to} as the generator pushes it: no promotion, no flags. *)
Mv(from, to) ==
  [from |-> from, to |-> to, promotion |-> "none",
   isCastle |-> FALSE, isEnPassant |-> FALSE]

----------------------------------------------------------------------------
(* createInitialGameState *)

placeBackRank(color) ==
  [c \in Idx |->
     Pc(<<"r", "n", "b", "q", "k", "b", "n", "r">>[c + 1], color)]

InitialBoard ==
  [r \in Idx |->
     CASE r = 0 -> placeBackRank("b")
       [] r = 7 -> placeBackRank("w")
       [] r = 1 -> [c \in Idx |-> Pc("p", "b")]
       [] r = 6 -> [c \in Idx |-> Pc("p", "w")]
       [] OTHER -> [c \in Idx |-> Null]]

createInitialGameState ==
  [board |-> InitialBoard,
   turn |-> "w",
   castling |-> [wK |-> TRUE, wQ |-> TRUE, bK |-> TRUE, bQ |-> TRUE],
   enPassant |-> NoSquare,
   halfmoveClock |-> 0,
   fullmoveNumber |-> 1,
   history |-> <<>>,
   result |-> "null",
   status |-> "White to move"]

toSquare(sq) == FILES[sq.c + 1] \o RANKS[sq.r + 1]

inBounds(r, c) == r >= 0 /\ r < 8 /\ c >= 0 /\ c < 8

other(color) == IF color = "w" THEN "b" ELSE "w"

(* The first square in row-major order holding the king of color. *)
findKing(board, color) ==
  LET ks == {s \in Squares : board[s.r][s.c] = Pc("k", color)}
  IN  IF ks = {} THEN NoSquare
      ELSE CHOOSE s \in ks :
             \A t \in ks : s.r < t.r \/ (s.r = t.r /\ s.c <= t.c)

----------------------------------------------------------------------------
(* isSquareAttacked *)

knightDeltas ==
  << <<-2, -1>>, <<-2, 1>>, <<-1, -2>>, <<-1, 2>>,
     <<1, -2>>, <<1, 2>>, <<2, -1>>, <<2, 1>> >>

diagonals == << <<-1, -1>>, <<-1, 1>>, <<1, -1>>, <<1, 1>> >>

orthogonals == << <<-1, 0>>, <<1, 0>>, <<0, -1>>, <<0, 1>> >>

rays == diagonals \o orthogonals

kingDeltas ==
  << <<-1, -1>>, <<-1, 0>>, <<-1, 1>>, <<0, -1>>,
     <<0, 1>>, <<1, -1>>, <<1, 0>>, <<1, 1>> >>

Range(s) == {s[i] : i \in DOMAIN s}

pawnAttacks(board, tr, tc, byColor) ==
  LET pawnDir == IF byColor = "w" THEN -1 ELSE 1
      pr == tr - pawnDir
  IN  \E dc \in {-1, 1} :
        /\ inBounds(pr, tc - dc)
        /\ board[pr][tc - dc] = Pc("p", byColor)

knightAttacks(board, tr, tc, byColor) ==
  \E d \in Range(knightDeltas) :
    /\ inBounds(tr + d[1], tc + d[2])
    /\ board[tr + d[1]][tc + d[2]] = Pc("n", byColor)

(* The while loop of one ray, from (r, c) on: the first occupied square    *)
(* decides, then the ray is blocked.                                       *)
RECURSIVE rayAttacks(_, _, _, _, _, _, _, _)
rayAttacks(board, r, c, dr, dc, tr, tc, byColor) ==
  IF ~inBounds(r, c) THEN FALSE
  ELSE LET p == board[r][c]
       IN  IF p # Null
           THEN /\ p.color = byColor
                /\ \/ p.type = "q"
                   \/ (Abs(dr) = 1 /\ Abs(dc) = 1 /\ p.type = "b")
                   \/ ((dr = 0 \/ dc = 0) /\ p.type = "r")
                   \/ (p.type = "k" /\ Max(Abs(r - tr), Abs(c - tc)) = 1)
           ELSE rayAttacks(board, r + dr, c + dc, dr, dc, tr, tc, byColor)

slidingAttacks(board, tr, tc, byColor) ==
  \E d \in Range(rays) :
    rayAttacks(board, tr + d[1], tc + d[2], d[1], d[2], tr, tc, byColor)

kingAttacks(board, tr, tc, byColor) ==
  \E d \in Range(kingDeltas) :
    /\ inBounds(tr + d[1], tc + d[2])
    /\ board[tr + d[1]][tc + d[2]] = Pc("k", byColor)

isSquareAttacked(board, target, byColor) ==
  \/ pawnAttacks(board, target.r, target.c, byColor)
  \/ knightAttacks(board, target.r, target.c, byColor)
  \/ slidingAttacks(board, target.r, target.c, byColor)
  \/ kingAttacks(board, target.r, target.c, byColor)

isInCheck(state, color) ==
  LET king == findKing(state.board, color)
  IN  IF king = NoSquare THEN FALSE
      ELSE isSquareAttacked(state.board, king, other(color))

----------------------------------------------------------------------------
(* applyMoveUnchecked *)

didEnPassantCapture(state, move, piece) ==
  move.isEnPassant /\ piece # Null /\ piece.type = "p"
    /\ state.enPassant # NoSquare

(* enPassantCapture that looks for the captured pawn ahead of the          *)
(* destination instead of behind it.                                       *)
enPassantCaptureAhead(state, move, piece, board) ==
  IF didEnPassantCapture(state, move, piece)
  THEN LET capR == IF piece.color = "w" THEN move.to.r - 1 ELSE move.to.r + 1
       IN  [board EXCEPT ![capR][move.to.c] = Null]
  ELSE board

(* The en-passant block: the pawn beside the destination leaves the board. *)
enPassantCapture(state, move, piece, board) ==
  IF didEnPassantCapture(state, move, piece)
  THEN LET capR == IF piece.color = "w" THEN move.to.r + 1 ELSE move.to.r - 1
       IN  [board EXCEPT ![capR][move.to.c] = Null]
  ELSE board

didCastle(move, piece) == move.isCastle /\ piece # Null /\ piece.type = "k"

(* castleRook that copies the rook and leaves the corner as it is. *)
castleRookKeepsCorner(move, piece, board) ==
  IF didCastle(move, piece)
  THEN IF move.to.c = 6
       THEN [board EXCEPT ![move.to.r][5] = board[move.to.r][7]]
       ELSE IF move.to.c = 2
       THEN [board EXCEPT ![move.to.r][3] = board[move.to.r][0]]
       ELSE board
  ELSE board

(* The castling block: the rook of the wing goes next to the king. *)
castleRook(move, piece, board) ==
  IF didCastle(move, piece)
  THEN IF move.to.c = 6
       THEN [board EXCEPT ![move.to.r][5] = board[move.to.r][7],
                          ![move.to.r][7] = Null]
       ELSE IF move.to.c = 2
       THEN [board EXCEPT ![move.to.r][3] = board[move.to.r][0],
                          ![move.to.r][0] = Null]
       ELSE board
  ELSE board

(* placePiece without the test that the piece is a pawn. *)
placePieceAnyPiece(move, piece, board) ==
  IF move.to.r = 0 \/ move.to.r = 7
  THEN [board EXCEPT ![move.to.r][move.to.c] =
          Pc(IF move.promotion # "none" THEN move.promotion ELSE "q",
             piece.color)]
  ELSE [board EXCEPT ![move.to.r][move.to.c] = piece]

(* placePiece that promotes to a queen whatever the move asks for. *)
placePieceAlwaysQueen(move, piece, board) ==
  IF piece # Null /\ piece.type = "p" /\ (move.to.r = 0 \/ move.to.r = 7)
  THEN [board EXCEPT ![move.to.r][move.to.c] = Pc("q", piece.color)]
  ELSE [board EXCEPT ![move.to.r][move.to.c] = piece]

(* The promotion block: what lands on the destination square. *)
placePiece(move, piece, board) ==
  IF piece # Null /\ piece.type = "p" /\ (move.to.r = 0 \/ move.to.r = 7)
  THEN [board EXCEPT ![move.to.r][move.to.c] =
          Pc(IF move.promotion # "none" THEN move.promotion ELSE "q",
             piece.color)]
  ELSE [board EXCEPT ![move.to.r][move.to.c] = piece]

(* kingMoved that clears the flags of both sides. *)
kingMovedClearsAll(castling, piece) ==
  IF piece # Null /\ piece.type = "k"
  THEN [wK |-> FALSE, wQ |-> FALSE, bK |-> FALSE, bQ |-> FALSE]
  ELSE castling

kingMoved(castling, piece) ==
  IF piece # Null /\ piece.type = "k"
  THEN IF piece.color = "w"
       THEN [castling EXCEPT !.wK = FALSE, !.wQ = FALSE]
       ELSE [castling EXCEPT !.bK = FALSE, !.bQ = FALSE]
  ELSE castling

(* rookOnCorner that assigns each flag "the rook is not on that corner". *)
rookOnCornerAssigns(castling, p, sq) ==
  IF p # Null /\ p.type = "r"
  THEN IF p.color = "w"
       THEN [castling EXCEPT
               !.wQ = ~(sq.r = 7 /\ sq.c = 0),
               !.wK = ~(sq.r = 7 /\ sq.c = 7)]
       ELSE [castling EXCEPT
               !.bQ = ~(sq.r = 0 /\ sq.c = 0),
               !.bK = ~(sq.r = 0 /\ sq.c = 7)]
  ELSE castling

(* A rook of color p on corner sq (moved from it, or captured on it). *)
rookOnCorner(castling, p, sq) ==
  IF p # Null /\ p.type = "r"
  THEN IF p.color = "w"
       THEN [castling EXCEPT
               !.wQ = IF sq.r = 7 /\ sq.c = 0 THEN FALSE ELSE @,
               !.wK = IF sq.r = 7 /\ sq.c = 7 THEN FALSE ELSE @]
       ELSE [castling EXCEPT
               !.bQ = IF sq.r = 0 /\ sq.c = 0 THEN FALSE ELSE @,
               !.bK = IF sq.r = 0 /\ sq.c = 7 THEN FALSE ELSE @]
  ELSE castling

(* updateCastling that does not look at the captured piece. *)
updateCastlingMoverOnly(castling, move, piece, captured) ==
  rookOnCorner(kingMoved(castling, piece), piece, move.from)

updateCastling(castling, move, piece, captured) ==
  rookOnCorner(rookOnCorner(kingMoved(castling, piece), piece, move.from),
               captured, move.to)

(* nextEnPassant without the test that the piece is a pawn. *)
nextEnPassantAnyPiece(move, piece) ==
  IF Abs(move.to.r - move.from.r) = 2
  THEN Sq((move.to.r + move.from.r) \div 2, move.from.c)
  ELSE NoSquare

nextEnPassant(move, piece) ==
  IF piece # Null /\ piece.type = "p" /\ Abs(move.to.r - move.from.r) = 2
  THEN Sq((move.to.r + move.from.r) \div 2, move.from.c)
  ELSE NoSquare

(* nextHalfmoveClock that a capture by a piece does not reset. *)
nextHalfmoveClockPawnOnly(state, piece, captured, didEP) ==
  IF piece # Null /\ piece.type = "p" THEN 0
  ELSE state.halfmoveClock + 1

(* The halfmove clock after the move: 0 on a pawn move or a capture. *)
nextHalfmoveClock(state, piece, captured, didEP) ==
  IF piece # Null /\ piece.type = "p" THEN 0
  ELSE IF captured # Null \/ didEP THEN 0
  ELSE state.halfmoveClock + 1

pieceLetterMap(type) ==
  CASE type = "p" -> ""
    [] type = "n" -> "N"
    [] type = "b" -> "B"
    [] type = "r" -> "R"
    [] type = "q" -> "Q"
    [] type = "k" -> "K"

moveToSimpleNotation(state, move, castled) ==
  LET piece == state.board[move.from.r][move.from.c]
      captured == state.board[move.to.r][move.to.c]
      isCapture == captured # Null \/ move.isEnPassant
      fromFile == FILES[move.from.c + 1]
  IN  IF piece = Null THEN ""
      ELSE IF castled THEN (IF move.to.c = 6 THEN "O-O" ELSE "O-O-O")
      ELSE IF piece.type = "p"
      THEN (IF isCapture THEN fromFile \o "x" ELSE "")
             \o toSquare(move.to)
             \o (IF move.promotion # "none"
                 THEN "=" \o pieceLetterMap(move.promotion) ELSE "")
      ELSE pieceLetterMap(piece.type)
             \o (IF isCapture THEN "x" ELSE "") \o toSquare(move.to)

(* nextFullmoveNumber that counts White's moves instead of Black's. *)
nextFullmoveNumberAfterWhite(state) ==
  IF state.turn = "w" THEN state.fullmoveNumber + 1
  ELSE state.fullmoveNumber

(* The move number after the move: one more after a move of Black. *)
nextFullmoveNumber(state) ==
  IF state.turn = "b" THEN state.fullmoveNumber + 1
  ELSE state.fullmoveNumber

(* capturedEntry without the pawn taken en passant. *)
capturedEntryOnDestination(state, captured, didEP) == captured

(* The captured field of the history entry. *)
capturedEntry(state, captured, didEP) ==
  IF captured # Null THEN captured
  ELSE IF didEP THEN Pc("p", other(state.turn))
  ELSE Null

applyMoveUnchecked(state, move) ==
  LET piece == state.board[move.from.r][move.from.c]
      captured == state.board[move.to.r][move.to.c]
      cleared == [state.board EXCEPT ![move.from.r][move.from.c] = Null]
      board == placePiece(move, piece,
                 castleRook(move, piece,
                   enPassantCapture(state, move, piece, cleared)))
      didEP == didEnPassantCapture(state, move, piece)
      historyEntry ==
        [move |-> move,
         notation |-> moveToSimpleNotation(state, move, didCastle(move, piece)),
         turn |-> state.turn,
         captured |-> capturedEntry(state, captured, didEP)]
  IN  [state EXCEPT
         !.board = board,
         !.turn = other(state.turn),
         !.castling = updateCastling(state.castling, move, piece, captured),
         !.enPassant = nextEnPassant(move, piece),
         !.halfmoveClock = nextHalfmoveClock(state, piece, captured, didEP),
         !.fullmoveNumber = nextFullmoveNumber(state),
         !.history = Append(state.history, historyEntry)]

----------------------------------------------------------------------------
(* generatePseudoMovesForPiece *)

(* Destinations from + delta that are on the board and not held by color,  *)
(* in the order of deltas (the knight loop and the king loop).             *)
stepMoves(board, from, color, deltas) ==
  LET tos == [i \in DOMAIN deltas |->
                Sq(from.r + deltas[i][1], from.c + deltas[i][2])]
      free(t) == /\ inBounds(t.r, t.c)
                 /\ (board[t.r][t.c] = Null \/ board[t.r][t.c].color # color)
      kept == SelectSeq(tos, free)
  IN  [i \in 1 .. Len(kept) |-> Mv(from, kept[i])]

(* The while loop of one sliding direction, from (r, c) on. *)
RECURSIVE rayMoves(_, _, _, _, _, _, _)
rayMoves(board, from, color, r, c, dr, dc) ==
  IF ~inBounds(r, c) THEN <<>>
  ELSE LET target == board[r][c]
       IN  IF target = Null
           THEN <<Mv(from, Sq(r, c))>>
                  \o rayMoves(board, from, color, r + dr, c + dc, dr, dc)
           ELSE IF target.color # color THEN <<Mv(from, Sq(r, c))>>
           ELSE <<>>

RECURSIVE slideMoves(_, _, _, _)
slideMoves(board, from, color, dirs) ==
  IF dirs = <<>> THEN <<>>
  ELSE rayMoves(board, from, color, from.r + dirs[1][1], from.c + dirs[1][2],
                dirs[1][1], dirs[1][2])
         \o slideMoves(board, from, color, Tail(dirs))

addIfEnemy(board, from, color, toR, toC) ==
  IF inBounds(toR, toC) /\ board[toR][toC] # Null
       /\ board[toR][toC].color # color
  THEN <<Mv(from, Sq(toR, toC))>>
  ELSE <<>>

(* pawnMoves without the double step from the start rank. *)
pawnMovesSingleStep(state, from, color) ==
  LET board == state.board
      forward == IF color = "w" THEN -1 ELSE 1
      oneR == from.r + forward
      ep == state.enPassant
      pushes ==
        IF inBounds(oneR, from.c) /\ board[oneR][from.c] = Null
        THEN <<Mv(from, Sq(oneR, from.c))>>
        ELSE <<>>
      enPassant ==
        IF ep # NoSquare /\ ep.r = from.r + forward /\ Abs(ep.c - from.c) = 1
        THEN <<[Mv(from, Sq(ep.r, ep.c)) EXCEPT !.isEnPassant = TRUE]>>
        ELSE <<>>
  IN  pushes
        \o addIfEnemy(board, from, color, from.r + forward, from.c - 1)
        \o addIfEnemy(board, from, color, from.r + forward, from.c + 1)
        \o enPassant

pawnMoves(state, from, color) ==
  LET board == state.board
      forward == IF color = "w" THEN -1 ELSE 1
      oneR == from.r + forward
      startRank == IF color = "w" THEN 6 ELSE 1
      twoR == from.r + 2 * forward
      ep == state.enPassant
      pushes ==
        IF inBounds(oneR, from.c) /\ board[oneR][from.c] = Null
        THEN <<Mv(from, Sq(oneR, from.c))>>
               \o (IF from.r = startRank /\ board[twoR][from.c] = Null
                   THEN <<Mv(from, Sq(twoR, from.c))>> ELSE <<>>)
        ELSE <<>>
      enPassant ==
        IF ep # NoSquare /\ ep.r = from.r + forward /\ Abs(ep.c - from.c) = 1
        THEN <<[Mv(from, Sq(ep.r, ep.c)) EXCEPT !.isEnPassant = TRUE]>>
        ELSE <<>>
  IN  pushes
        \o addIfEnemy(board, from, color, from.r + forward, from.c - 1)
        \o addIfEnemy(board, from, color, from.r + forward, from.c + 1)
        \o enPassant

(* castlingMoves without the test that the crossed square is not attacked. *)
castlingMovesThroughAttack(state, from, color) ==
  LET board == state.board
      homeRank == IF color = "w" THEN 7 ELSE 0
      opp == other(color)
      canK == IF color = "w" THEN state.castling.wK ELSE state.castling.bK
      canQ == IF color = "w" THEN state.castling.wQ ELSE state.castling.bQ
      castle(c) == [Mv(from, Sq(homeRank, c)) EXCEPT !.isCastle = TRUE]
  IN  IF from.r = homeRank /\ from.c = 4
           /\ ~isSquareAttacked(board, Sq(homeRank, 4), opp)
      THEN (IF /\ canK
               /\ board[homeRank][5] = Null /\ board[homeRank][6] = Null
               /\ ~isSquareAttacked(board, Sq(homeRank, 6), opp)
            THEN <<castle(6)>> ELSE <<>>)
        \o (IF /\ canQ
               /\ board[homeRank][1] = Null /\ board[homeRank][2] = Null
               /\ board[homeRank][3] = Null
               /\ ~isSquareAttacked(board, Sq(homeRank, 2), opp)
            THEN <<castle(2)>> ELSE <<>>)
      ELSE <<>>

castlingMoves(state, from, color) ==
  LET board == state.board
      homeRank == IF color = "w" THEN 7 ELSE 0
      opp == other(color)
      canK == IF color = "w" THEN state.castling.wK ELSE state.castling.bK
      canQ == IF color = "w" THEN state.castling.wQ ELSE state.castling.bQ
      castle(c) == [Mv(from, Sq(homeRank, c)) EXCEPT !.isCastle = TRUE]
  IN  IF from.r = homeRank /\ from.c = 4
           /\ ~isSquareAttacked(board, Sq(homeRank, 4), opp)
      THEN (IF /\ canK
               /\ board[homeRank][5] = Null /\ board[homeRank][6] = Null
               /\ ~isSquareAttacked(board, Sq(homeRank, 5), opp)
               /\ ~isSquareAttacked(board, Sq(homeRank, 6), opp)
            THEN <<castle(6)>> ELSE <<>>)
        \o (IF /\ canQ
               /\ board[homeRank][1] = Null /\ board[homeRank][2] = Null
               /\ board[homeRank][3] = Null
               /\ ~isSquareAttacked(board, Sq(homeRank, 3), opp)
               /\ ~isSquareAttacked(board, Sq(homeRank, 2), opp)
            THEN <<castle(2)>> ELSE <<>>)
      ELSE <<>>

generatePseudoMovesForPiece(state, from) ==
  LET board == state.board
      piece == board[from.r][from.c]
      color == piece.color
  IN  CASE piece = Null -> <<>>
        [] piece.type = "p" -> pawnMoves(state, from, color)
        [] piece.type = "n" -> stepMoves(board, from, color, knightDeltas)
        [] piece.type = "b" -> slideMoves(board, from, color, diagonals)
        [] piece.type = "r" -> slideMoves(board, from, color, orthogonals)
        [] piece.type = "q" -> slideMoves(board, from, color, rays)
        [] piece.type = "k" ->
             stepMoves(board, from, color, kingDeltas)
               \o castlingMoves(state, from, color)

----------------------------------------------------------------------------
(* getLegalMovesFromSquare, applyMove, getAllLegalMoves *)

promotionKinds == <<"q", "r", "b", "n">>

(* The flatMap: a pawn move onto rank index 0 or 7 becomes four moves. *)
RECURSIVE withPromos(_, _)
withPromos(state, pseudo) ==
  IF pseudo = <<>> THEN <<>>
  ELSE LET m == pseudo[1]
           p == state.board[m.from.r][m.from.c]
       IN  (IF p = Null \/ p.type # "p" THEN <<m>>
            ELSE IF m.to.r # 0 /\ m.to.r # 7 THEN <<m>>
            ELSE [i \in 1 .. Len(promotionKinds) |->
                    [m EXCEPT !.promotion = promotionKinds[i]]])
             \o withPromos(state, Tail(pseudo))

(* keepsKingSafe looking at the king of the side that moves next. *)
keepsKingSafeWrongSide(state, m, color) ==
  ~isInCheck(applyMoveUnchecked(state, m), other(color))

(* The filter: the mover's king is not attacked after the move. *)
keepsKingSafe(state, m, color) ==
  ~isInCheck(applyMoveUnchecked(state, m), color)

(* getLegalMovesFromSquare without the test of the piece's colour. *)
getLegalMovesFromSquareAnyColour(state, from) ==
  LET piece == state.board[from.r][from.c]
      safe(m) == keepsKingSafe(state, m, piece.color)
  IN  IF piece = Null THEN <<>>
      ELSE SelectSeq(withPromos(state,
                       generatePseudoMovesForPiece(state, from)), safe)

getLegalMovesFromSquare(state, from) ==
  LET piece == state.board[from.r][from.c]
      safe(m) == keepsKingSafe(state, m, piece.color)
  IN  IF piece = Null THEN <<>>
      ELSE IF piece.color # state.turn THEN <<>>
      ELSE SelectSeq(withPromos(state,
                       generatePseudoMovesForPiece(state, from)), safe)

(* sameMove that compares the coordinates and the promotion only. *)
sameMoveIgnoresFlags(m, move) ==
  /\ m.to.r = move.to.r
  /\ m.to.c = move.to.c
  /\ (IF m.promotion # "none" THEN m.promotion = move.promotion ELSE TRUE)

(* The predicate of some(): the generated move m against the given move. *)
sameMove(m, move) ==
  /\ m.to.r = move.to.r
  /\ m.to.c = move.to.c
  /\ m.isCastle = move.isCastle
  /\ m.isEnPassant = move.isEnPassant
  /\ (IF m.promotion # "none" THEN m.promotion = move.promotion ELSE TRUE)

isLegal(legalMoves, move) ==
  \E i \in 1 .. Len(legalMoves) : sameMove(legalMoves[i], move)

hasAnyLegal(next) ==
  \E r \in Idx, c \in Idx :
    /\ next.board[r][c] # Null
    /\ next.board[r][c].color = next.turn
    /\ Len(getLegalMovesFromSquare(next, Sq(r, c))) > 0

(* gameResult that gives the game to the side that gives check. *)
gameResultOnCheck(sideToMove, inCheckNow, any) ==
  IF inCheckNow THEN (IF sideToMove = "w" THEN "0-1" ELSE "1-0")
  ELSE IF ~any THEN "1/2-1/2"
  ELSE "null"

(* gameResult that leaves a stalemate without a result. *)
gameResultMateOnly(sideToMove, inCheckNow, any) ==
  IF ~any /\ inCheckNow
  THEN (IF sideToMove = "w" THEN "0-1" ELSE "1-0")
  ELSE "null"

(* gameResult that credits a mate to the side that is mated. *)
gameResultWrongWinner(sideToMove, inCheckNow, any) ==
  IF ~any
  THEN IF inCheckNow THEN (IF sideToMove = "w" THEN "1-0" ELSE "0-1")
       ELSE "1/2-1/2"
  ELSE "null"

(* result, from the side to move, whether it is in check and whether it   *)
(* has any legal move.                                                     *)
gameResult(sideToMove, inCheckNow, any) ==
  IF ~any
  THEN IF inCheckNow THEN (IF sideToMove = "w" THEN "0-1" ELSE "1-0")
       ELSE "1/2-1/2"
  ELSE "null"

gameStatus(sideToMove, inCheckNow, any, result) ==
  LET name == IF sideToMove = "w" THEN "White" ELSE "Black"
  IN  IF ~any
      THEN IF inCheckNow
           THEN "Checkmate - "
                  \o (IF result = "1-0" THEN "White wins" ELSE "Black wins")
           ELSE "Stalemate - draw"
      ELSE IF inCheckNow THEN name \o " to move - Check"
      ELSE name \o " to move"

(* Status and result of the position next, reached by an accepted move. *)
withStatus(next) ==
  LET sideToMove == next.turn
      inCheckNow == isInCheck(next, sideToMove)
      any == hasAnyLegal(next)
      result == gameResult(sideToMove, inCheckNow, any)
  IN  [next EXCEPT !.result = result,
                   !.status = gameStatus(sideToMove, inCheckNow, any, result)]

(* applyMoveGiven that, given a position already marked 'Illegal move',   *)
(* puts the status of the position back instead of marking it again.       *)
applyMoveGivenClearsOnReplay(state, move, legalMoves) ==
  IF ~isLegal(legalMoves, move)
  THEN IF state.status = "Illegal move"
       THEN withStatus(state)
       ELSE [state EXCEPT !.status = "Illegal move"]
  ELSE withStatus(applyMoveUnchecked(state, move))

(* applyMoveGiven that applies the move before it rejects it. *)
applyMoveGivenAppliesFirst(state, move, legalMoves) ==
  IF ~isLegal(legalMoves, move)
  THEN [applyMoveUnchecked(state, move) EXCEPT !.status = "Illegal move"]
  ELSE withStatus(applyMoveUnchecked(state, move))

(* applyMove with the list getLegalMovesFromSquare(state, move.from) given. *)
applyMoveGiven(state, move, legalMoves) ==
  IF ~isLegal(legalMoves, move)
  THEN [state EXCEPT !.status = "Illegal move"]
  ELSE withStatus(applyMoveUnchecked(state, move))

applyMove(state, move) ==
  applyMoveGiven(state, move, getLegalMovesFromSquare(state, move.from))

RECURSIVE concatAll(_)
concatAll(lists) ==
  IF lists = <<>> THEN <<>> ELSE lists[1] \o concatAll(Tail(lists))

getAllLegalMoves(state) ==
  concatAll([i \in 1 .. 64 |->
     LET r == (i - 1) \div 8
         c == (i - 1) % 8
         p == state.board[r][c]
     IN  IF p # Null /\ p.color = state.turn
         THEN getLegalMovesFromSquare(state, Sq(r, c))
         ELSE <<>>])

----------------------------------------------------------------------------
(* reducer of ChessGamePage *)

reducer(state, action) ==
  CASE action.type = "NEW_GAME" -> createInitialGameState
    [] action.type = "APPLY_MOVE" -> applyMove(state, action.move)
    [] OTHER -> state

(* onSquareClick: the move found for the clicked square pos among the      *)
(* legal moves of the selected square, NoMove if there is none.            *)
NoMove == Mv(NoSquare, NoSquare)

chosenMove(legalMoves, pos) ==
  LET found == SelectSeq(legalMoves,
                 LAMBDA m : m.to.r = pos.r /\ m.to.c = pos.c)
  IN  IF found = <<>> THEN NoMove ELSE found[1]

(* dispatchedMove that drops the promotion instead of forcing the queen. *)
dispatchedMoveWithoutPromotion(chosen) ==
  [chosen EXCEPT !.promotion = "none"]

(* onSquareClick: the move dispatched for the chosen one. *)
dispatchedMove(chosen) ==
  IF chosen.promotion # "none" THEN [chosen EXCEPT !.promotion = "q"]
  ELSE chosen

(* onSquareClick with selectedReal the selected square (NoSquare if none)  *)
(* and pos the clicked one: the actions it dispatches.                     *)
onSquareClick(state, selectedReal, pos) ==
  LET clickedPiece == state.board[pos.r][pos.c]
      chosen == chosenMove(getLegalMovesFromSquare(state, selectedReal), pos)
  IN  IF state.result # "null" THEN <<>>
      ELSE IF selectedReal = NoSquare THEN <<>>
      ELSE IF clickedPiece # Null /\ clickedPiece.color = state.turn THEN <<>>
      ELSE IF chosen = NoMove THEN <<>>
      ELSE <<[type |-> "APPLY_MOVE", move |-> dispatchedMove(chosen)]>>

----------------------------------------------------------------------------
(* MoveHistory *)

(* The rows of the table: entries i and i + 1 of history (from 0, in steps *)
(* of 2) give row floor(i / 2) + 1; an absent entry gives the empty        *)
(* string.                                                                 *)
historyRows(history) ==
  [k \in 1 .. (Len(history) + 1) \div 2 |->
     LET i == 2 * (k - 1)
         notation(j) ==
           IF j + 1 <= Len(history) THEN history[j + 1].notation ELSE ""
     IN  [moveNo |-> (i \div 2) + 1,
          white |-> notation(i),
          black |-> notation(i + 1)]]

----------------------------------------------------------------------------
(* The moves the two players try.                                          *)

(* Square of a file letter and a rank number, as toSquare prints it. *)
At(file, rank) ==
  Sq(8 - rank, (CHOOSE i \in 1 .. 8 : FILES[i] = file) - 1)

P(f1, r1, f2, r2) == Mv(At(f1, r1), At(f2, r2))

Castle(f1, r1, f2, r2) == [P(f1, r1, f2, r2) EXCEPT !.isCastle = TRUE]

EnPassant(f1, r1, f2, r2) == [P(f1, r1, f2, r2) EXCEPT !.isEnPassant = TRUE]

Promote(f1, r1, f2, r2, kind) == [P(f1, r1, f2, r2) EXCEPT !.promotion = kind]

(* Fool's mate: Black mates on the fourth ply. *)
FoolsMate ==
  <<P("f", 2, "f", 3), P("e", 7, "e", 5), P("g", 2, "g", 4),
    P("d", 8, "h", 4)>>

(* Scholar's mate: White mates on the seventh ply. *)
ScholarsMate ==
  <<P("e", 2, "e", 4), P("e", 7, "e", 5), P("d", 1, "h", 5),
    P("b", 8, "c", 6), P("f", 1, "c", 4), P("g", 8, "f", 6),
    P("h", 5, "f", 7)>>

(* Loyd's stalemate in ten moves. *)
Stalemate ==
  <<P("e", 2, "e", 3), P("a", 7, "a", 5), P("d", 1, "h", 5),
    P("a", 8, "a", 6), P("h", 5, "a", 5), P("h", 7, "h", 5),
    P("h", 2, "h", 4), P("a", 6, "h", 6), P("a", 5, "c", 7),
    P("f", 7, "f", 6), P("c", 7, "d", 7), P("e", 8, "f", 7),
    P("d", 7, "b", 7), P("d", 8, "d", 3), P("b", 7, "b", 8),
    P("d", 3, "h", 7), P("b", 8, "c", 8), P("f", 7, "g", 6),
    P("c", 8, "e", 6)>>

(* White may capture en passant on d6; the line declines, and the right    *)
(* has lapsed two plies later.                                             *)
EnPassantWhite ==
  <<P("e", 2, "e", 4), P("a", 7, "a", 6), P("e", 4, "e", 5),
    P("d", 7, "d", 5), EnPassant("e", 5, "d", 6)>>

EnPassantLapsed ==
  <<P("e", 2, "e", 4), P("a", 7, "a", 6), P("e", 4, "e", 5),
    P("d", 7, "d", 5), P("h", 2, "h", 3), P("h", 7, "h", 6),
    P("a", 2, "a", 3)>>

(* Black captures en passant on e3. *)
EnPassantBlack ==
  <<P("h", 2, "h", 3), P("d", 7, "d", 5), P("h", 3, "h", 4),
    P("d", 5, "d", 4), P("e", 2, "e", 4), EnPassant("d", 4, "e", 3)>>

(* Both sides castle king-side. *)
CastleKingSide ==
  <<P("e", 2, "e", 4), P("e", 7, "e", 5), P("g", 1, "f", 3),
    P("g", 8, "f", 6), P("f", 1, "c", 4), P("f", 8, "c", 5),
    Castle("e", 1, "g", 1), Castle("e", 8, "g", 8)>>

(* Both sides castle queen-side. *)
CastleQueenSide ==
  <<P("d", 2, "d", 4), P("d", 7, "d", 5), P("b", 1, "c", 3),
    P("b", 8, "c", 6), P("c", 1, "f", 4), P("c", 8, "f", 5),
    P("d", 1, "d", 2), P("d", 8, "d", 7), Castle("e", 1, "c", 1),
    Castle("e", 8, "c", 8)>>

(* Both sides promote with a capture on a corner. *)
Promotions ==
  <<P("a", 2, "a", 4), P("h", 7, "h", 5), P("a", 4, "a", 5),
    P("h", 5, "h", 4), P("a", 5, "a", 6), P("h", 4, "h", 3),
    P("a", 6, "b", 7), P("h", 3, "g", 2),
    Promote("b", 7, "a", 8, "q"), Promote("g", 2, "h", 1, "q")>>

Book ==
  {FoolsMate, ScholarsMate, Stalemate, EnPassantWhite, EnPassantLapsed,
   EnPassantBlack, CastleKingSide, CastleQueenSide, Promotions}

(* The moves applied so far are the start of a line of the book.  A game   *)
(* follows the book or leaves it by one ply: from a position on the book   *)
(* every move is tried, from one off the book none.                        *)
OnBook(state) ==
  \E line \in Book :
    /\ Len(state.history) <= Len(line)
    /\ \A i \in 1 .. Len(state.history) : state.history[i].move = line[i]

(* The longest game played. *)
MaxPly == 20

Flags == {<<FALSE, FALSE>>, <<TRUE, FALSE>>, <<FALSE, TRUE>>, <<TRUE, TRUE>>}

Promotion == {"none", "q", "r", "b", "n"}

(* Where a pawn can promote, a king castle or a pawn capture en passant. *)
Special(from, to) ==
  \/ /\ Abs(to.c - from.c) <= 1
     /\ (from.r = 1 /\ to.r = 0) \/ (from.r = 6 /\ to.r = 7)
  \/ /\ from.c = 4 /\ from.r = to.r /\ from.r \in {0, 7} /\ to.c \in {2, 6}
  \/ /\ Abs(to.c - from.c) = 1
     /\ (from.r = 3 /\ to.r = 2) \/ (from.r = 4 /\ to.r = 5)

(* The moves tried from a square: every destination as a plain move, and   *)
(* every promotion and flag on the special ones.                           *)
MovesFrom(from) ==
  {Mv(from, to) : to \in Squares}
    \cup {[from |-> from, to |-> to, promotion |-> k,
           isCastle |-> f[1], isEnPassant |-> f[2]] :
            to \in {t \in Squares : Special(from, t)},
            k \in Promotion, f \in Flags}

----------------------------------------------------------------------------
(* The state machine: game is the position the page holds, last is the     *)
(* action the reducer ran last and whether applyMove found its move legal. *)

Init ==
  /\ game = createInitialGameState
  /\ last = [type |-> "INIT", legal |-> FALSE]

NewGame ==
  /\ game' = reducer(game, [type |-> "NEW_GAME"])
  /\ last' = [type |-> "NEW_GAME", legal |-> FALSE]

(* dispatch({type: 'APPLY_MOVE', move}).  The legal moves of a square are  *)
(* computed once for all the moves tried from it.  Every move applyMove    *)
(* accepts is tried; of those it rejects, whose return value reads nothing *)
(* of the move, the one that stays on its square.                          *)
ApplyMove ==
  /\ OnBook(game)
  /\ Len(game.history) < MaxPly
  /\ \E from \in Squares :
       \E legalMoves \in {getLegalMovesFromSquare(game, from)} :
         \E move \in {m \in MovesFrom(from) :
                        isLegal(legalMoves, m) \/ m.to = from} :
           /\ game' = applyMoveGiven(game, move, legalMoves)
           /\ last' = [type |-> "APPLY_MOVE",
                       legal |-> isLegal(legalMoves, move)]

Next == NewGame \/ ApplyMove

Spec == Init /\ [][Next]_vars

----------------------------------------------------------------------------
(* What the claims read off a position. *)

Kings(board, color) ==
  Cardinality({s \in Squares : board[s.r][s.c] = Pc("k", color)})

PieceCount(board) ==
  Cardinality({s \in Squares : board[s.r][s.c] # Null})

LastEntry == game.history[Len(game.history)]

Accepted == last.type = "APPLY_MOVE" /\ last.legal

Rejected == last.type = "APPLY_MOVE" /\ ~last.legal

Terminal(status) ==
  status \in {"Checkmate - White wins", "Checkmate - Black wins",
              "Stalemate - draw"}

(* The legal moves of the side to move, as a set. *)
LegalNow == Range(getAllLegalMoves(game))

IsPromotion(m) ==
  /\ game.board[m.from.r][m.from.c] = Pc("p", game.turn)
  /\ m.to.r \in {0, 7}

----------------------------------------------------------------------------
(* C1: in every position reached from createInitialGameState by applyMove  *)
(* calls, accepted or rejected, the board holds exactly one white king and *)
(* exactly one black king.                                                 *)
OneKingEach ==
  Kings(game.board, "w") = 1 /\ Kings(game.board, "b") = 1

(* A capture was applied, a later move was rejected, both kings stand. *)
KingsStandAfterCapture ==
  /\ Rejected
  /\ game.history # <<>>
  /\ LastEntry.captured # Null
  /\ OneKingEach

(* C2: the king of the side that just moved is not attacked by the side to *)
(* move, and no legal move of the side to move lands on that king.         *)
KingNeverCapturable ==
  LET mover == other(game.turn)
      king == findKing(game.board, mover)
  IN  /\ king # NoSquare
      /\ ~isSquareAttacked(game.board, king, game.turn)
      /\ \A m \in LegalNow : m.to # king

(* The side to move is in check after an accepted move and has replies. *)
CheckWithReplies ==
  /\ Accepted
  /\ isInCheck(game, game.turn)
  /\ LegalNow # {}

(* C3: a rejected applyMove returns status 'Illegal move' and the board,   *)
(* turn, castling rights, en-passant target, halfmoveClock, fullmoveNumber,*)
(* history and result of the position it was given.                        *)
RejectedMoveKeepsPosition ==
  [][(last'.type = "APPLY_MOVE" /\ ~last'.legal)
       => /\ game'.status = "Illegal move"
          /\ game'.board = game.board
          /\ game'.turn = game.turn
          /\ game'.castling = game.castling
          /\ game'.enPassant = game.enPassant
          /\ game'.halfmoveClock = game.halfmoveClock
          /\ game'.fullmoveNumber = game.fullmoveNumber
          /\ game'.history = game.history
          /\ game'.result = game.result]_vars

(* A move was rejected in the middle of a game. *)
RejectedMidGame ==
  /\ Rejected
  /\ game.status = "Illegal move"
  /\ Len(game.history) >= 2
  /\ game.enPassant # NoSquare

(* C4 as claimed: in every reachable position, rejected calls included,    *)
(* result is non-null if and only if status is checkmate or stalemate.     *)
ResultIffTerminalStatus ==
  (game.result # "null") <=> Terminal(game.status)

(* C4 as amended: a terminal status goes with a non-null result; a         *)
(* non-null result goes with a terminal status or, after a rejected call,  *)
(* with 'Illegal move'; right after an accepted applyMove the two agree.   *)
ResultIffTerminalOrRejected ==
  /\ Terminal(game.status) => game.result # "null"
  /\ game.result # "null"
       => (Terminal(game.status) \/ (Rejected /\ game.status = "Illegal move"))
  /\ (Accepted \/ last.type # "APPLY_MOVE")
       => ((game.result # "null") <=> Terminal(game.status))

(* A move was rejected after the game had ended. *)
RejectedAfterGameEnd ==
  Rejected /\ game.result # "null" /\ game.status = "Illegal move"

(* C5: a legal pawn move onto the last rank given without a promotion      *)
(* field is accepted and puts a queen of the mover's colour on the         *)
(* destination square.                                                     *)
PromotionDefaultsToQueen ==
  \A m \in LegalNow :
    IsPromotion(m) =>
      LET res == applyMove(game, [m EXCEPT !.promotion = "none"])
      IN  /\ res.status # "Illegal move"
          /\ res.board[m.to.r][m.to.c] = Pc("q", game.turn)

(* C6: a legal pawn move onto the last rank with promotion 'n', 'b', 'r'   *)
(* or 'q' is accepted and puts a piece of exactly that kind and of the     *)
(* mover's colour on the destination square.                               *)
ExplicitPromotionHonoured ==
  \A m \in LegalNow :
    IsPromotion(m) =>
      \A kind \in {"n", "b", "r", "q"} :
        LET res == applyMove(game, [m EXCEPT !.promotion = kind])
        IN  /\ res.status # "Illegal move"
            /\ Len(res.history) = Len(game.history) + 1
            /\ res.board[m.to.r][m.to.c] = Pc(kind, game.turn)

(* A pawn has just promoted to a knight. *)
PromotedToKnight ==
  /\ Accepted
  /\ game.history # <<>>
  /\ LastEntry.move.promotion = "n"
  /\ LastEntry.move.to.r \in {0, 7}
  /\ Abs(LastEntry.move.to.r - LastEntry.move.from.r) = 1
  /\ game.board[LastEntry.move.to.r][LastEntry.move.to.c]
       = Pc("n", LastEntry.turn)

(* C7: after an accepted applyMove, with S the side to move: no legal     *)
(* move and S's king attacked give the win of the other side and a         *)
(* checkmate status; no legal move and the king not attacked give          *)
(* '1/2-1/2' and a stalemate status; otherwise result is null and status   *)
(* names S, with 'Check' exactly when the king is attacked.  A decisive    *)
(* result always goes with no legal move and a king in check.              *)
StatusFollowsPosition ==
  LET S == game.turn
      noMove == LegalNow = {}
      attacked ==
        isSquareAttacked(game.board, findKing(game.board, S), other(S))
      name == IF S = "w" THEN "White" ELSE "Black"
  IN  /\ Accepted =>
           IF noMove /\ attacked
           THEN /\ game.result = (IF S = "b" THEN "1-0" ELSE "0-1")
                /\ game.status = (IF S = "b" THEN "Checkmate - White wins"
                                  ELSE "Checkmate - Black wins")
           ELSE IF noMove
           THEN game.result = "1/2-1/2" /\ game.status = "Stalemate - draw"
           ELSE /\ game.result = "null"
                /\ game.status = (IF attacked THEN name \o " to move - Check"
                                  ELSE name \o " to move")
      /\ game.result \in {"1-0", "0-1"} => (noMove /\ attacked)

(* White has just mated. *)
WhiteMates ==
  /\ Accepted
  /\ game.result = "1-0"
  /\ game.turn = "b"
  /\ game.status = "Checkmate - White wins"
  /\ isInCheck(game, "b")

(* C8: an en-passant capture is legal only in the ply right after the      *)
(* opponent's pawn double-step; accepted, it puts the capturing pawn on    *)
(* the empty target square and removes the pawn that made the double-step, *)
(* which stands on the capturing pawn's rank and the destination file.     *)
EnPassantOnlyNextPly ==
  \A m \in LegalNow :
    m.isEnPassant =>
      /\ game.history # <<>>
      /\ LET prev == LastEntry.move
             opp == other(game.turn)
             res == applyMove(game, m)
         IN  /\ LastEntry.turn = opp
             /\ prev.from.c = prev.to.c
             /\ Abs(prev.to.r - prev.from.r) = 2
             /\ game.board[prev.to.r][prev.to.c] = Pc("p", opp)
             /\ m.to = Sq((prev.from.r + prev.to.r) \div 2, prev.to.c)
             /\ m.to = game.enPassant
             /\ game.board[m.to.r][m.to.c] = Null
             /\ prev.to = Sq(m.from.r, m.to.c)
             /\ res.status # "Illegal move"
             /\ res.board[m.to.r][m.to.c] = Pc("p", game.turn)
             /\ res.board[m.from.r][m.from.c] = Null
             /\ res.board[prev.to.r][prev.to.c] = Null
             /\ PieceCount(res.board) = PieceCount(game.board) - 1

(* A pawn has just been captured en passant. *)
CapturedEnPassant ==
  /\ Accepted
  /\ game.history # <<>>
  /\ LastEntry.move.isEnPassant
  /\ LastEntry.captured = Pc("p", game.turn)
  /\ game.board[LastEntry.move.to.r][LastEntry.move.to.c]
       = Pc("p", LastEntry.turn)
  /\ game.board[LastEntry.move.from.r][LastEntry.move.to.c] = Null

(* C9: an accepted castling move, in one transition, takes the king from   *)
(* file 4 of its home rank to file 6 or 2 and the rook of that wing from   *)
(* the corner (file 7 or 0) to file 5 or 3, leaves the corner and the      *)
(* king's origin empty and clears both castling flags of the side.         *)
CastlingMovesKingAndRook ==
  \A m \in LegalNow :
    m.isCastle =>
      LET color == game.turn
          home == IF color = "w" THEN 7 ELSE 0
          corner == IF m.to.c = 6 THEN 7 ELSE 0
          inner == IF m.to.c = 6 THEN 5 ELSE 3
          res == applyMove(game, m)
      IN  /\ m.from = Sq(home, 4)
          /\ m.to.r = home /\ m.to.c \in {2, 6}
          /\ game.board[home][4] = Pc("k", color)
          /\ game.board[home][corner] = Pc("r", color)
          /\ res.status # "Illegal move"
          /\ Len(res.history) = Len(game.history) + 1
          /\ res.board[home][m.to.c] = Pc("k", color)
          /\ res.board[home][inner] = Pc("r", color)
          /\ res.board[home][corner] = Null
          /\ res.board[home][4] = Null
          /\ \A s \in Squares :
               (s.r # home \/ s.c \notin {4, m.to.c, inner, corner})
                 => res.board[s.r][s.c] = game.board[s.r][s.c]
          /\ IF color = "w"
             THEN ~res.castling.wK /\ ~res.castling.wQ
                    /\ res.castling.bK = game.castling.bK
                    /\ res.castling.bQ = game.castling.bQ
             ELSE ~res.castling.bK /\ ~res.castling.bQ
                    /\ res.castling.wK = game.castling.wK
                    /\ res.castling.wQ = game.castling.wQ

(* White has just castled king-side: king e1 to g1, rook h1 to f1. *)
WhiteCastledKingSide ==
  /\ Accepted
  /\ game.history # <<>>
  /\ LastEntry.move = Castle("e", 1, "g", 1)
  /\ game.board[7][6] = Pc("k", "w")
  /\ game.board[7][5] = Pc("r", "w")
  /\ game.board[7][4] = Null
  /\ game.board[7][7] = Null
  /\ ~game.castling.wK /\ ~game.castling.wQ

(* C10: across applyMove calls, a castling flag that is false stays false. *)
CastlingRightsNeverReturn ==
  [][last'.type = "APPLY_MOVE"
       => \A flag \in {"wK", "wQ", "bK", "bQ"} :
            ~game.castling[flag] => ~game'.castling[flag]]_vars

(* A rook has moved off a corner after its side lost both flags there. *)
RookMovedAfterFlagsLost ==
  /\ Accepted
  /\ game.history # <<>>
  /\ ~game.castling.wK /\ ~game.castling.wQ
  /\ LastEntry.turn = "w"
  /\ game.board[LastEntry.move.to.r][LastEntry.move.to.c] = Pc("r", "w")
  /\ LastEntry.move.from # At("h", 1) /\ LastEntry.move.from # At("a", 1)
  /\ ~LastEntry.move.isCastle
  /\ \E i \in 1 .. Len(game.history) - 1 : game.history[i].move.isCastle

(* C11: an accepted applyMove leaves halfmoveClock at 0 if the moved piece  *)
(* was a pawn or the move took a piece off the board (en passant           *)
(* included), and otherwise at the previous halfmoveClock plus 1.          *)
HalfmoveClockResetsOrCounts ==
  [][(last'.type = "APPLY_MOVE" /\ last'.legal)
       => LET entry == game'.history[Len(game'.history)]
              from == entry.move.from
              pawn == game.board[from.r][from.c].type = "p"
              capture == PieceCount(game'.board) < PieceCount(game.board)
          IN  game'.halfmoveClock =
                IF pawn \/ capture THEN 0 ELSE game.halfmoveClock + 1]_vars

(* A piece other than a pawn has just captured: the clock is back at 0. *)
ClockResetByPieceCapture ==
  /\ Accepted
  /\ Len(game.history) >= 3
  /\ LastEntry.captured # Null
  /\ LastEntry.move.promotion = "none"
  /\ game.board[LastEntry.move.to.r][LastEntry.move.to.c].type
       \in {"n", "b", "r", "q", "k"}
  /\ game.halfmoveClock = 0

(* C12: for the position createInitialGameState returns, getAllLegalMoves  *)
(* returns exactly 20 moves, all of white pieces: a single and a double    *)
(* step for each of the 8 pawns and 4 knight moves.                        *)
TwentyMovesAtStart ==
  last.type \in {"INIT", "NEW_GAME"} =>
    LET moves == getAllLegalMoves(game)
        pawn == {Mv(Sq(6, c), Sq(6 - d, c)) : c \in Idx, d \in {1, 2}}
        knight == {P("b", 1, "a", 3), P("b", 1, "c", 3),
                   P("g", 1, "f", 3), P("g", 1, "h", 3)}
    IN  /\ game = createInitialGameState
        /\ Len(moves) = 20
        /\ Range(moves) = pawn \cup knight
        /\ Cardinality(pawn) = 16 /\ Cardinality(knight) = 4
        /\ \A m \in pawn : game.board[m.from.r][m.from.c] = Pc("p", "w")
        /\ \A m \in knight : game.board[m.from.r][m.from.c] = Pc("n", "w")

(* A new game has been started and white has 20 moves. *)
NewGameHasTwentyMoves ==
  /\ last.type = "NEW_GAME"
  /\ game.turn = "w"
  /\ Cardinality(LegalNow) = 20

(* The moves replayed from a square.  Where a piece of the side to move    *)
(* stands: the plain moves along its rank and its file, the move that      *)
(* stays included, and every flag on the special destinations.  From the   *)
(* other squares, where applyMove rejects whatever the move: the move that *)
(* stays and a castling move to the opposite square.                       *)
ReplayedFrom(from) ==
  IF game.board[from.r][from.c] # Null
       /\ game.board[from.r][from.c].color = game.turn
  THEN {Mv(from, to) : to \in {t \in Squares : t.r = from.r \/ t.c = from.c}}
         \cup {[from |-> from, to |-> to, promotion |-> "none",
                isCastle |-> f[1], isEnPassant |-> f[2]] :
                 to \in {t \in Squares : Special(from, t)}, f \in Flags}
  ELSE {Mv(from, from),
        [Mv(from, Sq(7 - from.r, 7 - from.c)) EXCEPT !.isCastle = TRUE]}

(* C13: replaying a rejected move changes nothing: for every move m that   *)
(* applyMove rejects in the position s, applyMove(s, m) is s with status   *)
(* 'Illegal move', and applyMove(applyMove(s, m), m) is equal to it in     *)
(* every field.                                                            *)
RejectedReplayIdempotent ==
  [](\A from \in Squares :
      \A legalMoves \in {getLegalMovesFromSquare(game, from)} :
        \A marked \in {[game EXCEPT !.status = "Illegal move"]} :
          \A legalAgain \in {getLegalMovesFromSquare(marked, from)} :
            \A m \in ReplayedFrom(from) :
              ~isLegal(legalMoves, m) =>
                /\ applyMoveGiven(game, m, legalMoves) = marked
                /\ applyMoveGiven(marked, m, legalAgain) = marked)

(* A move has been rejected in the middle of a game and the same move,     *)
(* given again, returns the very position held.                            *)
RejectedMoveReplayed ==
  /\ Rejected
  /\ game.status = "Illegal move"
  /\ Len(game.history) >= 2
  /\ \E from \in Squares :
       /\ game.board[from.r][from.c] # Null
       /\ game.board[from.r][from.c].color = game.turn
       /\ applyMove(game, Mv(from, from)) = game

(* C14: getLegalMovesFromSquare returns the empty sequence for a square    *)
(* that is empty or holds a piece of the side not to move, and every move  *)
(* it returns has from equal to the square asked for.                      *)
LegalMovesOnlyFromOwnPiece ==
  \A sq \in Squares :
    LET piece == game.board[sq.r][sq.c]
        moves == getLegalMovesFromSquare(game, sq)
    IN  /\ (piece = Null \/ piece.color # game.turn) => moves = <<>>
        /\ \A i \in 1 .. Len(moves) : moves[i].from = sq

(* In a position reached by a capture, an empty square and a square of the *)
(* side not to move give no move, a square of the side to move gives some. *)
OwnPieceMovesOthersNone ==
  /\ Accepted
  /\ LastEntry.captured # Null
  /\ \E e \in Squares, o \in Squares, w \in Squares :
       /\ game.board[e.r][e.c] = Null
       /\ getLegalMovesFromSquare(game, e) = <<>>
       /\ game.board[o.r][o.c] # Null
       /\ game.board[o.r][o.c].color = other(game.turn)
       /\ getLegalMovesFromSquare(game, o) = <<>>
       /\ game.board[w.r][w.c] # Null
       /\ game.board[w.r][w.c].color = game.turn
       /\ Len(getLegalMovesFromSquare(game, w)) >= 2

(* C15: isCastle and isEnPassant are part of a move's identity: a move     *)
(* with the from and to of a legal move but another value of isCastle or   *)
(* isEnPassant (a castling move without isCastle, an en-passant capture    *)
(* without isEnPassant, a move with a flag the legal move has not) is      *)
(* rejected with status 'Illegal move' and nothing of it is applied.       *)
FlagsArePartOfIdentity ==
  \A from \in Squares :
    \A legalMoves \in {getLegalMovesFromSquare(game, from)} :
      \A i \in 1 .. Len(legalMoves) :
        \A f \in Flags :
          LET m == legalMoves[i]
              variant == [m EXCEPT !.isCastle = f[1], !.isEnPassant = f[2]]
          IN  f # <<m.isCastle, m.isEnPassant>> =>
                applyMoveGiven(game, variant, legalMoves)
                  = [game EXCEPT !.status = "Illegal move"]

(* A move has been rejected where castling is legal, and the king's move   *)
(* to the castling square without isCastle is rejected there.              *)
CastlingWithoutFlagRejected ==
  /\ Rejected
  /\ game.status = "Illegal move"
  /\ \E m \in LegalNow :
       /\ m.isCastle
       /\ applyMove(game, m).status # "Illegal move"
       /\ applyMove(game, [m EXCEPT !.isCastle = FALSE]).status
            = "Illegal move"

(* C16: a castling move is among the legal moves only if the king stands   *)
(* on file-index 4 of its home rank, the castling flag of that side and    *)
(* wing is true, every square between king and rook is empty, and the      *)
(* king's square, the square it crosses and the square it lands on are not *)
(* attacked by the opponent.                                               *)
CastlingOnlyWhenAllowed ==
  \A m \in LegalNow :
    m.isCastle =>
      LET color == game.turn
          opp == other(color)
          home == IF color = "w" THEN 7 ELSE 0
          kingSide == m.to.c = 6
          flag == IF color = "w"
                  THEN (IF kingSide THEN game.castling.wK ELSE game.castling.wQ)
                  ELSE (IF kingSide THEN game.castling.bK ELSE game.castling.bQ)
          between == IF kingSide THEN {5, 6} ELSE {1, 2, 3}
          crossed == IF kingSide THEN 5 ELSE 3
      IN  /\ m.from = Sq(home, 4)
          /\ game.board[home][4] = Pc("k", color)
          /\ m.to.r = home /\ m.to.c \in {2, 6}
          /\ flag
          /\ \A c \in between : game.board[home][c] = Null
          /\ ~isSquareAttacked(game.board, Sq(home, 4), opp)
          /\ ~isSquareAttacked(game.board, Sq(home, crossed), opp)
          /\ ~isSquareAttacked(game.board, m.to, opp)

(* Black may castle queen-side: the flag is set, b8, c8 and d8 are empty   *)
(* and e8, d8 and c8 are not attacked.                                     *)
BlackMayCastleQueenSide ==
  /\ Accepted
  /\ game.turn = "b"
  /\ Castle("e", 8, "c", 8) \in LegalNow
  /\ game.castling.bQ
  /\ \A c \in {1, 2, 3} : game.board[0][c] = Null
  /\ \A c \in {2, 3, 4} : ~isSquareAttacked(game.board, Sq(0, c), "w")

(* C17: after an accepted applyMove, enPassant is non-null if and only if  *)
(* the move applied was a pawn advancing two ranks, and then it is the     *)
(* square midway between the pawn's origin and destination on the same     *)
(* file; after any other accepted move it is null.                         *)
EnPassantTargetIffDoubleStep ==
  [][(last'.type = "APPLY_MOVE" /\ last'.legal)
       => LET move == game'.history[Len(game'.history)].move
              piece == game.board[move.from.r][move.from.c]
              double == /\ piece.type = "p"
                        /\ Abs(move.to.r - move.from.r) = 2
          IN  /\ (game'.enPassant # NoSquare) <=> double
              /\ double =>
                   /\ move.from.c = move.to.c
                   /\ game'.enPassant.c = move.from.c
                   /\ 2 * game'.enPassant.r = move.from.r + move.to.r
                   /\ game'.board[game'.enPassant.r][game'.enPassant.c] = Null
              /\ ~double => game'.enPassant = NoSquare]_vars

(* A target set by White's double step is gone after Black's reply, which  *)
(* sets none.                                                              *)
TargetClearedAfterOnePly ==
  /\ Accepted
  /\ Len(game.history) >= 2
  /\ game.enPassant = NoSquare
  /\ LastEntry.turn = "b"
  /\ LET prev == game.history[Len(game.history) - 1].move
     IN  /\ Abs(prev.to.r - prev.from.r) = 2
         /\ prev.from.c = prev.to.c
         /\ game.board[prev.to.r][prev.to.c] = Pc("p", "w")
         /\ prev.from.r = 6

(* C18: an accepted applyMove clears both castling flags of the mover on a *)
(* king move (castling included), clears the flag of a corner when a rook  *)
(* moves from, or a rook is captured on, its own side's original corner,   *)
(* and leaves every other flag as it was; a move that is none of these     *)
(* leaves all four flags unchanged.                                        *)
CastlingFlagsFrame ==
  [][(last'.type = "APPLY_MOVE" /\ last'.legal)
       => LET move == game'.history[Len(game'.history)].move
              piece == game.board[move.from.r][move.from.c]
              captured == game.board[move.to.r][move.to.c]
              corner(flag) ==
                CASE flag = "wK" -> Sq(7, 7) [] flag = "wQ" -> Sq(7, 0)
                  [] flag = "bK" -> Sq(0, 7) [] flag = "bQ" -> Sq(0, 0)
              side(flag) == IF flag \in {"wK", "wQ"} THEN "w" ELSE "b"
              clears(flag) ==
                \/ piece = Pc("k", side(flag))
                \/ piece = Pc("r", side(flag)) /\ move.from = corner(flag)
                \/ captured = Pc("r", side(flag)) /\ move.to = corner(flag)
          IN  \A flag \in {"wK", "wQ", "bK", "bQ"} :
                game'.castling[flag]
                  = (game.castling[flag] /\ ~clears(flag))]_vars

(* A black rook has just been captured on a8: Black's queen-side flag is   *)
(* cleared and the three other flags stand.                                *)
RookCapturedOnCorner ==
  /\ Accepted
  /\ game.history # <<>>
  /\ LastEntry.captured = Pc("r", "b")
  /\ LastEntry.move.to = At("a", 8)
  /\ ~game.castling.bQ
  /\ game.castling.bK /\ game.castling.wK /\ game.castling.wQ

(* The entries of a history that record a capture. *)
Captures(history) ==
  {i \in 1 .. Len(history) : history[i].captured # Null}

(* C19: an accepted applyMove appends exactly one entry to history, whose  *)
(* captured field is non-null exactly when the move removed a piece of the *)
(* other side from the board (a pawn for en passant); and in every         *)
(* reachable position the number of pieces on the board is 32 minus the    *)
(* number of history entries with a non-null captured field.               *)
HistoryCountsCaptures ==
  /\ [](PieceCount(game.board) = 32 - Cardinality(Captures(game.history)))
  /\ [][(last'.type = "APPLY_MOVE" /\ last'.legal)
          => LET entry == game'.history[Len(game'.history)]
                 was(s) == game.board[s.r][s.c]
                 now(s) == game'.board[s.r][s.c]
                 removed == {s \in Squares :
                               /\ was(s) # Null
                               /\ was(s).color = other(game.turn)
                               /\ (now(s) = Null \/ now(s).color = game.turn)}
             IN  /\ Len(game'.history) = Len(game.history) + 1
                 /\ SubSeq(game'.history, 1, Len(game.history)) = game.history
                 /\ entry.turn = game.turn
                 /\ (entry.captured # Null) <=> (removed # {})
                 /\ \A s \in removed : entry.captured = game.board[s.r][s.c]
                 /\ Cardinality(removed) <= 1
                 /\ PieceCount(game'.board)
                      = PieceCount(game.board) - Cardinality(removed)]_vars

(* A pawn has been taken en passant and a later move accepted: the entry   *)
(* of the capture records a pawn and a piece is missing for each capture.  *)
EnPassantCaptureRecorded ==
  /\ Accepted
  /\ \E i \in Captures(game.history) :
       /\ game.history[i].move.isEnPassant
       /\ game.history[i].captured.type = "p"
       /\ i < Len(game.history)
  /\ PieceCount(game.board) < 32
  /\ PieceCount(game.board) = 32 - Cardinality(Captures(game.history))

(* C20: generation and re-validation agree: applyMove accepts every move   *)
(* getLegalMovesFromSquare returns for any square (status is not 'Illegal  *)
(* move', the turn flips, history grows by one); and the move the click    *)
(* handler dispatches, taken from that list with the promotion forced to   *)
(* 'q', never gives status 'Illegal move'.                                 *)
GeneratedMovesAccepted ==
  [](\A from \in Squares :
      \A legalMoves \in {getLegalMovesFromSquare(game, from)} :
        /\ \A i \in 1 .. Len(legalMoves) :
             \A res \in {applyMoveGiven(game, legalMoves[i], legalMoves)} :
               /\ res.status # "Illegal move"
               /\ res.turn = other(game.turn)
               /\ Len(res.history) = Len(game.history) + 1
        /\ \A pos \in {legalMoves[i].to : i \in 1 .. Len(legalMoves)} :
             \A chosen \in {chosenMove(legalMoves, pos)} :
               /\ chosen # NoMove
               /\ chosen.to = pos
               /\ isLegal(legalMoves, dispatchedMove(chosen))
               /\ chosen.promotion # "none" =>
                    \A res \in {applyMoveGiven(game, dispatchedMove(chosen),
                                                legalMoves)} :
                      /\ res.status # "Illegal move"
                      /\ res.turn = other(game.turn))

(* A pawn can promote: a click on the last rank dispatches the queen       *)
(* promotion, which is accepted.                                           *)
ClickPromotesToQueen ==
  /\ Accepted
  /\ game.result = "null"
  /\ \E m \in LegalNow :
       /\ IsPromotion(m)
       /\ m.promotion = "n"
       /\ LET move == dispatchedMove(
                        chosenMove(getLegalMovesFromSquare(game, m.from), m.to))
              res == applyMove(game, move)
          IN  /\ move.promotion = "q"
              /\ res.status # "Illegal move"
              /\ res.board[m.to.r][m.to.c] = Pc("q", game.turn)

(* C21: a castling flag that is true implies that the king of its side     *)
(* stands on file-index 4 of its home rank and a rook of its side on the   *)
(* corner of its wing (file 7 king-side, file 0 queen-side); so an         *)
(* accepted castling move takes a rook of the mover from the corner and    *)
(* puts that rook next to the king.                                        *)
FlagMeansKingAndRookAtHome ==
  /\ [](\A flag \in {"wK", "wQ", "bK", "bQ"} :
          LET color == IF flag \in {"wK", "wQ"} THEN "w" ELSE "b"
              home == IF color = "w" THEN 7 ELSE 0
              corner == IF flag \in {"wK", "bK"} THEN 7 ELSE 0
          IN  game.castling[flag] =>
                /\ game.board[home][4] = Pc("k", color)
                /\ game.board[home][corner] = Pc("r", color))
  /\ [][(last'.type = "APPLY_MOVE" /\ last'.legal
           /\ game'.history[Len(game'.history)].move.isCastle)
          => LET move == game'.history[Len(game'.history)].move
                 home == move.to.r
                 corner == IF move.to.c = 6 THEN 7 ELSE 0
                 inner == IF move.to.c = 6 THEN 5 ELSE 3
             IN  /\ game.board[home][corner] = Pc("r", game.turn)
                 /\ game'.board[home][inner] = Pc("r", game.turn)
                 /\ game'.board[home][corner] = Null]_vars

(* Black's queen-side rook has left its corner and the flag with it, the   *)
(* king-side flag stands with the king on e8 and the rook on h8.           *)
OneFlagLeftKingAndRookAtHome ==
  /\ Accepted
  /\ game.castling.bK /\ ~game.castling.bQ
  /\ game.board[0][0] # Pc("r", "b")
  /\ game.board[0][4] = Pc("k", "b")
  /\ game.board[0][7] = Pc("r", "b")

(* C22: a position with a non-null result is absorbing: applyMove rejects  *)
(* every move given in it and returns its board, turn, castling rights,    *)
(* history and result; only NEW_GAME, which gives createInitialGameState,  *)
(* leaves it; and the click handler dispatches nothing while result is     *)
(* set.                                                                    *)
TerminalPositionsAbsorbing ==
  /\ [](game.result # "null" =>
          /\ \A from \in Squares :
               \A legalMoves \in {getLegalMovesFromSquare(game, from)} :
                 /\ legalMoves = <<>>
                 /\ \A m \in MovesFrom(from) :
                      \A res \in {applyMoveGiven(game, m, legalMoves)} :
                        /\ res.status = "Illegal move"
                        /\ res.board = game.board
                        /\ res.turn = game.turn
                        /\ res.castling = game.castling
                        /\ res.history = game.history
                        /\ res.result = game.result
          /\ \A selectedReal \in Squares \cup {NoSquare}, pos \in Squares :
               onSquareClick(game, selectedReal, pos) = <<>>)
  /\ [][game.result # "null" =>
          \/ /\ last'.type = "NEW_GAME"
             /\ game' = createInitialGameState
          \/ /\ last'.type = "APPLY_MOVE"
             /\ ~last'.legal
             /\ game' = [game EXCEPT !.status = "Illegal move"]]_vars

(* A move has been rejected after the stalemate: the draw stands and the   *)
(* side to move has no legal move.                                         *)
RejectedAfterStalemate ==
  /\ Rejected
  /\ game.result = "1/2-1/2"
  /\ game.status = "Illegal move"
  /\ ~isInCheck(game, game.turn)
  /\ LegalNow = {}

(* C23: in every reachable position turn is white exactly when history has *)
(* even length, fullmoveNumber is 1 + floor(history.length / 2), and the   *)
(* i-th history entry (from 0) records turn 'w' for even i and 'b' for odd *)
(* i, rejected moves included; so row k + 1 of MoveHistory holds entry 2k, *)
(* a move of White, in its White column and entry 2k + 1, a move of Black, *)
(* in its Black column.                                                    *)
TurnAndMoveNumberFollowHistory ==
  LET n == Len(game.history)
      rows == historyRows(game.history)
  IN  /\ (game.turn = "w") <=> (n % 2 = 0)
      /\ game.turn \in {"w", "b"}
      /\ game.fullmoveNumber = 1 + (n \div 2)
      /\ \A i \in 0 .. n - 1 :
           game.history[i + 1].turn = (IF i % 2 = 0 THEN "w" ELSE "b")
      /\ Len(rows) = (n + 1) \div 2
      /\ \A k \in 0 .. Len(rows) - 1 :
           /\ rows[k + 1].moveNo = k + 1
           /\ game.history[2 * k + 1].turn = "w"
           /\ rows[k + 1].white = game.history[2 * k + 1].notation
           /\ IF 2 * k + 1 < n
              THEN /\ game.history[2 * k + 2].turn = "b"
                   /\ rows[k + 1].black = game.history[2 * k + 2].notation
              ELSE rows[k + 1].black = ""

(* A move has been rejected with Black to move in the third move: the last *)
(* row of the table has White's move only.                                 *)
RejectedWithBlackToMove ==
  /\ Rejected
  /\ game.turn = "b"
  /\ Len(game.history) = 5
  /\ game.fullmoveNumber = 3
  /\ Len(historyRows(game.history)) = 3
  /\ historyRows(game.history)[3].moveNo = 3
  /\ historyRows(game.history)[3].white = LastEntry.notation
  /\ historyRows(game.history)[3].black = ""
  /\ LastEntry.turn = "w"

====
